---- MODULE Spec2Model ----
(***************************************************************************)
(* Model of the ownCloud storage adapter, addon_imps/storage/owncloud.py.  *)
(*                                                                         *)
(* A Python str is a sequence of one-character strings, so that lstrip,    *)
(* rstrip, split, startswith, unquote and urlparse are computed character  *)
(* by character, as the library computes them.  An optional value (None or *)
(* a value) is a sequence of length 0 or 1.                                *)
(***************************************************************************)
EXTENDS Integers, Sequences, FiniteSets, TLC

\* ------------------------------------------------------------------------
\* Bounds of the model
\* ------------------------------------------------------------------------

\* longest string enumerated character by character
MaxLen == 3
\* most <d:response> elements in one multistatus body
MaxResponses == 2
\* number of concurrent invocations in SpecConc
NInv == 2

\* ------------------------------------------------------------------------
\* str helpers
\* ------------------------------------------------------------------------

None == <<>>
Some(v) == <<v>>

\* bool(text): None and "" are both falsy
Truthy(opt) == opt # None /\ opt[1] # <<>>

Drop(s, n) == SubSeq(s, n + 1, Len(s))
Take(s, n) == SubSeq(s, 1, n)

\* str.startswith
StartsWith(s, p) == Len(p) <= Len(s) /\ Take(s, Len(p)) = p

\* str.find(c): 1-based index of the first c, 0 when there is none
Find(s, c) ==
    IF \E k \in 1..Len(s) : s[k] = c
    THEN CHOOSE k \in 1..Len(s) : s[k] = c /\ \A j \in 1..(k - 1) : s[j] # c
    ELSE 0

\* first index at or after `from` holding one of `cs`, 0 when there is none
FindAnyFrom(s, cs, from) ==
    IF \E k \in from..Len(s) : s[k] \in cs
    THEN CHOOSE k \in from..Len(s) :
            s[k] \in cs /\ \A j \in from..(k - 1) : s[j] \notin cs
    ELSE 0

\* str.rfind(c)
RFind(s, c) ==
    IF \E k \in 1..Len(s) : s[k] = c
    THEN CHOOSE k \in 1..Len(s) :
            s[k] = c /\ \A j \in (k + 1)..Len(s) : s[j] # c
    ELSE 0

RECURSIVE LStrip(_, _)
\* str.lstrip(c)
LStrip(s, c) == IF s # <<>> /\ Head(s) = c THEN LStrip(Tail(s), c) ELSE s

RECURSIVE RStrip(_, _)
\* str.rstrip(c)
RStrip(s, c) ==
    IF s # <<>> /\ s[Len(s)] = c THEN RStrip(Take(s, Len(s) - 1), c) ELSE s

\* str.strip(c)
Strip(s, c) == RStrip(LStrip(s, c), c)

\* path.rstrip("/").split("/")[-1]
LastSegment(s) ==
    LET t == RStrip(s, "/") IN Drop(t, RFind(t, "/"))

\* ------------------------------------------------------------------------
\* String constants of the source
\* ------------------------------------------------------------------------

STR_file == <<"f", "i", "l", "e">>
STR_folder == <<"f", "o", "l", "d", "e", "r">>
STR_remote_files ==
    <<"/", "r", "e", "m", "o", "t", "e", ".", "p", "h", "p", "/",
      "d", "a", "v", "/", "f", "i", "l", "e", "s", "/">>
STR_default_username ==
    <<"d", "e", "f", "a", "u", "l", "t", "-",
      "u", "s", "e", "r", "n", "a", "m", "e">>
STR_default_name ==
    <<"d", "e", "f", "a", "u", "l", "t", "-", "n", "a", "m", "e">>

\* the three request bodies, by name
BUILD_PROPFIND_CURRENT_USER_PRINCIPAL == "current-user-principal"
BUILD_PROPFIND_DISPLAYNAME == "displayname"
BUILD_PROPFIND_ALLPROPS == "allprop"

\* ------------------------------------------------------------------------
\* Outcomes of a call that may raise
\* ------------------------------------------------------------------------

Ok(v) == [ok |-> TRUE, val |-> v, err |-> "none"]
Raise(e) == [ok |-> FALSE, val |-> <<>>, err |-> e]

\* ------------------------------------------------------------------------
\* Item identifiers
\* ------------------------------------------------------------------------

\* storage.ItemType: the enum's values
ItemTypeValues == {STR_file, STR_folder}

make_item_id(item_type, path) == item_type \o <<":">> \o path

\* a decoder that splits at the last colon (rsplit)
parse_item_id_rsplit(item_id) ==
    IF item_id = <<>> THEN Ok(<<STR_folder, <<"/">>>>)
    ELSE LET k == RFind(item_id, ":") IN
         IF k = 0 THEN Raise("InvalidItemId")
         ELSE IF Take(item_id, k - 1) \notin ItemTypeValues
              THEN Raise("InvalidItemId")
              ELSE Ok(<<Take(item_id, k - 1), Drop(item_id, k)>>)

\* a decoder without the empty-identifier case
parse_item_id_no_empty(item_id) ==
    LET k == Find(item_id, ":") IN
    IF k = 0 THEN Raise("InvalidItemId")
    ELSE IF Take(item_id, k - 1) \notin ItemTypeValues
         THEN Raise("InvalidItemId")
         ELSE Ok(<<Take(item_id, k - 1), Drop(item_id, k)>>)

\* _parse_item_id: "" is the root folder; otherwise split(":", maxsplit=1);
\* unpacking a one-element list and ItemType(bad) both raise ValueError
parse_item_id(item_id) ==
    IF item_id = <<>> THEN Ok(<<STR_folder, <<"/">>>>)
    ELSE LET k == Find(item_id, ":") IN
         IF k = 0 THEN Raise("InvalidItemId")
         ELSE IF Take(item_id, k - 1) \notin ItemTypeValues
              THEN Raise("InvalidItemId")
              ELSE Ok(<<Take(item_id, k - 1), Drop(item_id, k)>>)

owncloud_root_id == make_item_id(STR_folder, <<"/">>)

\* _strip_absolute_path
strip_absolute_path(path) == LStrip(path, "/")

\* ------------------------------------------------------------------------
\* urllib.parse
\* ------------------------------------------------------------------------

HexDigits ==
    {"0", "1", "2", "3", "4", "5", "6", "7", "8", "9",
     "a", "b", "c", "d", "e", "f", "A", "B", "C", "D", "E", "F"}

Letters ==
    {"a", "b", "c", "d", "e", "f", "g", "h", "i", "j", "k", "l", "m",
     "n", "o", "p", "q", "r", "s", "t", "u", "v", "w", "x", "y", "z",
     "A", "B", "C", "D", "E", "F", "G", "H", "I", "J", "K", "L", "M",
     "N", "O", "P", "Q", "R", "S", "T", "U", "V", "W", "X", "Y", "Z"}

SchemeChars ==
    Letters \cup {"0", "1", "2", "3", "4", "5", "6", "7", "8", "9",
                  "+", "-", "."}

\* the character a %XX escape stands for; a byte that is not valid UTF-8
\* decodes to the replacement character
PercentDecoded(h1, h2) ==
    CASE <<h1, h2>> = <<"2", "F">> -> "/"
      [] <<h1, h2>> = <<"2", "f">> -> "/"
      [] <<h1, h2>> = <<"2", "2">> -> "\""
      [] <<h1, h2>> = <<"2", "0">> -> " "
      [] <<h1, h2>> = <<"2", "5">> -> "%"
      [] <<h1, h2>> = <<"3", "A">> -> ":"
      [] OTHER -> "U+FFFD"

RECURSIVE unquote(_)
\* urllib.parse.unquote: %XX with two hex digits is decoded, anything else
\* is kept
unquote(s) ==
    IF s = <<>> THEN <<>>
    ELSE IF /\ s[1] = "%"
            /\ Len(s) >= 3
            /\ s[2] \in HexDigits
            /\ s[3] \in HexDigits
         THEN <<PercentDecoded(s[2], s[3])>> \o unquote(Drop(s, 3))
         ELSE <<s[1]>> \o unquote(Tail(s))

\* urlsplit, scheme: url[:i] up to the first colon, when it starts with a
\* letter and holds scheme characters only
AfterScheme(url) ==
    LET i == Find(url, ":") IN
    IF /\ i > 1
       /\ url[1] \in Letters
       /\ \A k \in 1..(i - 1) : url[k] \in SchemeChars
    THEN Drop(url, i)
    ELSE url

\* urlsplit, netloc: after "//", up to the first of "/", "?", "#"
AfterNetloc(url) ==
    IF Len(url) >= 2 /\ url[1] = "/" /\ url[2] = "/"
    THEN LET d == FindAnyFrom(url, {"/", "?", "#"}, 3) IN
         IF d = 0 THEN <<>> ELSE Drop(url, d - 1)
    ELSE url

\* urlsplit: the fragment and the query are cut off
BeforeDelim(url, c) ==
    LET k == Find(url, c) IN IF k = 0 THEN url ELSE Take(url, k - 1)

\* urlparse, _splitparams: ";params" of the last path segment is cut off
BeforeParams(url) ==
    LET slash == RFind(url, "/")
        k == FindAnyFrom(url, {";"}, IF slash = 0 THEN 1 ELSE slash)
    IN  IF k = 0 THEN url ELSE Take(url, k - 1)

\* urlparse(url).path
urlparse_path(url) ==
    BeforeParams(BeforeDelim(BeforeDelim(AfterNetloc(AfterScheme(url)), "#"), "?"))

\* _href_to_path without `or "/"`
href_to_path_no_default(href, external_api_url) ==
    LET href_path == LStrip(urlparse_path(unquote(href)), "/")
        base_path == LStrip(RStrip(urlparse_path(external_api_url), "/"), "/")
        path == IF StartsWith(href_path, base_path)
                THEN Drop(href_path, Len(base_path))
                ELSE href_path
    IN  Strip(path, "/")

\* _href_to_path
href_to_path(href, external_api_url) ==
    LET href_path == LStrip(urlparse_path(unquote(href)), "/")
        base_path == LStrip(RStrip(urlparse_path(external_api_url), "/"), "/")
        path == IF StartsWith(href_path, base_path)
                THEN Drop(href_path, Len(base_path))
                ELSE href_path
        stripped == Strip(path, "/")
    IN  IF stripped = <<>> THEN <<"/">> ELSE stripped

\* ------------------------------------------------------------------------
\* Response bodies, as the adapter reads them
\* ------------------------------------------------------------------------

\* what text_content() yields: a transport failure, text that is not XML, or
\* a document.  Of a document the adapter reads the text of
\* current-user-principal/href, the text of displayname, and the direct
\* <d:response> children of the root.
TransportFailureBody ==
    [kind |-> "transport_failure", principal |-> None, displayname |-> None,
     responses |-> <<>>]
MalformedBody ==
    [kind |-> "malformed", principal |-> None, displayname |-> None,
     responses |-> <<>>]
XmlBody(principal, displayname, responses) ==
    [kind |-> "xml", principal |-> principal, displayname |-> displayname,
     responses |-> responses]

\* one <d:response>: the text of d:href, whether resourcetype holds
\* d:collection, the text of d:displayname
ResponseElement(href, collection, displayname) ==
    [href |-> href, collection |-> collection, displayname |-> displayname]

\* ------------------------------------------------------------------------
\* XML response parser
\* ------------------------------------------------------------------------

\* a parser whose failure on text that is not XML is a ValueError too
parse_property_valueerror(response_xml, xpath) ==
    IF response_xml.kind = "malformed" THEN Raise("PropertyNotFound")
    ELSE IF Truthy(response_xml[xpath]) THEN Ok(response_xml[xpath][1])
         ELSE Raise("PropertyNotFound")

\* _parse_property: ET.fromstring raises ParseError (not a ValueError) on
\* text that is not XML; a missing element or empty text raises ValueError
parse_property(response_xml, xpath) ==
    IF response_xml.kind = "malformed" THEN Raise("MalformedResponse")
    ELSE IF Truthy(response_xml[xpath]) THEN Ok(response_xml[xpath][1])
         ELSE Raise("PropertyNotFound")

\* _parse_current_user_principal
parse_current_user_principal(response_xml) ==
    parse_property(response_xml, "principal")

\* _parse_displayname: except ValueError -> "default-name"
parse_displayname(response_xml) ==
    LET r == parse_property(response_xml, "displayname") IN
    IF ~r.ok /\ r.err = "PropertyNotFound" THEN Ok(STR_default_name) ELSE r

\* _parse_response_element
parse_response_element(response_element, path) ==
    LET item_type ==
            IF response_element.collection THEN STR_folder ELSE STR_file
        displayname ==
            IF Truthy(response_element.displayname)
            THEN response_element.displayname[1]
            ELSE LastSegment(path)
    IN  [item_id |-> make_item_id(item_type, path),
         item_name |-> displayname,
         item_type |-> item_type]

\* ------------------------------------------------------------------------
\* Protocol adapter: the code inside each `async with` block, after the body
\* has been read
\* ------------------------------------------------------------------------

\* _fallback_username
fallback_username == Some(STR_default_username)

\* the fallback principal URL built without its trailing slash
fallback_principal_url_no_slash(username) == STR_remote_files \o username

\* f"/remote.php/dav/files/{username}/"
fallback_principal_url(username) == STR_remote_files \o username \o <<"/">>

\* get_external_account_id, lines 41-52: the value is
\* current_user_principal_url
principal_block(auth_result_extras_username, response_xml) ==
    LET r == parse_current_user_principal(response_xml) IN
    IF r.ok THEN r
    ELSE IF r.err = "PropertyNotFound"
         THEN LET username ==
                      IF Truthy(auth_result_extras_username)
                      THEN auth_result_extras_username
                      ELSE fallback_username
              IN  IF ~Truthy(username) THEN Raise("MissingUsername")
                  ELSE Ok(fallback_principal_url(username[1]))
         ELSE r

\* get_external_account_id, lines 61-62
displayname_block(response_xml) ==
    LET r == parse_displayname(response_xml) IN
    IF r.ok THEN Ok(<<r.val>>) ELSE r

\* an item-info lookup that answers a defaulted Item when the multistatus
\* holds no response element
item_info_block_defaulted(path, response_xml) ==
    IF response_xml.kind = "malformed" THEN Raise("MalformedResponse")
    ELSE IF response_xml.responses = <<>>
         THEN Ok(<<parse_response_element(
                      ResponseElement(None, FALSE, None), path)>>)
         ELSE Ok(<<parse_response_element(response_xml.responses[1], path)>>)

\* get_item_info, lines 84-92
item_info_block(path, response_xml) ==
    IF response_xml.kind = "malformed" THEN Raise("MalformedResponse")
    ELSE IF response_xml.responses = <<>> THEN Raise("ItemNotFound")
         ELSE Ok(<<parse_response_element(response_xml.responses[1], path)>>)

\* list_child_items, lines 116-127: whether a response element is kept
child_kept(response_element, path, item_type, external_api_url) ==
    /\ Truthy(response_element.href)
    /\ LET item_path ==
               href_to_path(response_element.href[1], external_api_url)
       IN  /\ RStrip(item_path, "/") # RStrip(path, "/")
           /\ \/ item_type = None
              \/ parse_response_element(response_element, item_path).item_type
                     = item_type[1]

\* list_child_items, lines 111-130
list_block(path, item_type, external_api_url, response_xml) ==
    IF response_xml.kind = "malformed" THEN Raise("MalformedResponse")
    ELSE LET kept == SelectSeq(response_xml.responses,
                         LAMBDA e : child_kept(e, path, item_type,
                                               external_api_url))
         IN  Ok([k \in 1..Len(kept) |->
                    parse_response_element(
                        kept[k],
                        href_to_path(kept[k].href[1], external_api_url))])

\* ------------------------------------------------------------------------
\* Inputs
\* ------------------------------------------------------------------------

\* all strings over `alphabet` of length at most n
StringsUpTo(alphabet, n) == UNION {[1..k -> alphabet] : k \in 0..n}

STR_alice == <<"a", "l", "i", "c", "e">>
STR_bob == <<"b", "o", "b">>
STR_docs == <<"d", "o", "c", "s">>
STR_bogus == <<"b", "o", "g", "u", "s">>
STR_host == <<"h", "t", "t", "p", "s", ":", "/", "/", "h", "o", "s", "t">>
STR_base_path ==
    <<"/", "r", "e", "m", "o", "t", "e", ".", "p", "h", "p", "/",
      "d", "a", "v", "/", "f", "i", "l", "e", "s", "/", "u", "/">>

\* config.external_api_url
ExternalApiUrls == {STR_host \o STR_base_path, STR_host}

\* paths of well-formed item identifiers
ItemPaths ==
    {<<>>, <<"/">>, STR_docs, <<"/">> \o STR_docs, STR_docs \o <<"/">>,
     <<"a", ":", "b">>}

ValidItemIds ==
    {<<>>, make_item_id(STR_file, STR_docs)}
        \cup {make_item_id(STR_folder, p) : p \in ItemPaths}

\* identifiers with no colon, or with a token that is no ItemType value
InvalidItemIds ==
    {STR_bogus, STR_folder, <<"F">> \o Tail(STR_folder) \o <<":", "x">>,
     <<"d", "i", "r", ":">> \o STR_docs}
        \cup (StringsUpTo({":", "/", "a"}, MaxLen) \ {<<>>})

Usernames == {None, Some(<<>>), Some(STR_alice), Some(STR_bob)}

ItemTypeFilters == {None, Some(STR_folder)}

Operations ==
    {"get_external_account_id", "get_item_info", "list_child_items",
     "list_root_items"}

\* an invocation before its first step
NewInvocation(op, item_id, username, item_type) ==
    [op |-> op, item_id |-> item_id, username |-> username,
     item_type |-> item_type, pc |-> "start", requests |-> <<>>,
     got |-> <<>>, open |-> 0, pending |-> Raise("none"),
     result |-> <<>>, err |-> "none"]

Invocations(itemIds, usernames, filters) ==
    {NewInvocation("get_external_account_id", <<>>, u, None) :
        u \in usernames}
      \cup {NewInvocation("get_item_info", id, None, None) : id \in itemIds}
      \cup {NewInvocation("list_child_items", id, None, f) :
              id \in itemIds, f \in filters}
      \cup {NewInvocation("list_root_items", <<>>, None, None)}

\* the path the server serves a request under: the base URL's path joined
\* with the request's uri_path
ServedPath(external_api_url, uri_path) ==
    LET base == Strip(urlparse_path(external_api_url), "/")
        rel == Strip(uri_path, "/")
        joined == IF base = <<>> THEN rel
                  ELSE IF rel = <<>> THEN base
                  ELSE base \o <<"/">> \o rel
    IN  IF joined = <<>> THEN <<"/">> ELSE <<"/">> \o joined \o <<"/">>

\* hrefs a Depth-1 answer may carry: none, the container's own (with and
\* without its trailing slash), a child's
Hrefs(external_api_url, uri_path) ==
    LET self == ServedPath(external_api_url, uri_path) IN
    {None, Some(self), Some(self \o <<"c">>),
     Some(IF Len(self) > 1 THEN Take(self, Len(self) - 1) ELSE self)}

ResponseElements(hrefs, displaynames) ==
    {ResponseElement(h, c, d) :
        h \in hrefs, c \in BOOLEAN, d \in displaynames}

AllpropBodies(elements, n) ==
    {TransportFailureBody, MalformedBody}
      \cup {XmlBody(None, None, rs) :
              rs \in UNION {[1..k -> elements] : k \in 0..n}}

PrincipalBodies(hrefs) ==
    {TransportFailureBody, MalformedBody}
      \cup {XmlBody(h, None, <<>>) : h \in hrefs}

DisplaynameBodies(names) ==
    {TransportFailureBody, MalformedBody}
      \cup {XmlBody(None, d, <<>>) : d \in names}

\* ------------------------------------------------------------------------
\* State
\* ------------------------------------------------------------------------

VARIABLES
    inv,      \* the invocations: arguments, position, requests issued,
              \* bodies received, open responses, result
    frame,    \* the locals of each invocation that live across an await
    config,   \* self.config.external_api_url
    cod       \* a codec computation: its inputs and outputs

vars == <<inv, frame, config, cod>>

CodIdle ==
    [kind |-> "idle", pc |-> "done", item_type |-> <<>>, path |-> <<>>,
     item_id |-> <<>>, href |-> <<>>, base |-> <<>>,
     decoded |-> Raise("none"), out |-> <<>>]

NewFrame == [item_type |-> <<>>, path |-> <<>>, url |-> <<>>]

\* one frame shared by all invocations, as locals kept on self would be
SharedSlot(i) == 1

\* the frame holding invocation i's locals: a coroutine has its own
Slot(i) == i

Request(uri_path, depth, content) ==
    [uri_path |-> uri_path, depth |-> depth, content |-> content]

\* a response that stays open when its block is left by an exception
release_on_success_only(open, ok) == IF ok THEN open - 1 ELSE open

\* __aexit__ of `async with self.network.PROPFIND(...) as response`
release(open, ok) == open - 1

\* ------------------------------------------------------------------------
\* Steps of an invocation
\* ------------------------------------------------------------------------

\* the call up to its first await: the identifier is decoded and the first
\* PROPFIND is issued
Call(i) ==
    /\ inv[i].pc = "start"
    /\ UNCHANGED <<config, cod>>
    /\ IF inv[i].op = "get_external_account_id"
       THEN /\ inv' = [inv EXCEPT
                  ![i].pc = "entering",
                  ![i].requests =
                      <<Request(strip_absolute_path(<<>>), "0",
                                BUILD_PROPFIND_CURRENT_USER_PRINCIPAL)>>]
            /\ UNCHANGED frame
       ELSE LET item_id == IF inv[i].op = "list_root_items"
                           THEN owncloud_root_id
                           ELSE inv[i].item_id
                parsed == parse_item_id(item_id)
                depth == IF inv[i].op = "get_item_info" THEN "0" ELSE "1"
            IN  IF ~parsed.ok
                THEN /\ inv' = [inv EXCEPT ![i].pc = "failed",
                                           ![i].err = parsed.err]
                     /\ UNCHANGED frame
                ELSE /\ inv' = [inv EXCEPT
                           ![i].pc = "entering",
                           ![i].requests =
                               <<Request(strip_absolute_path(parsed.val[2]),
                                         depth, BUILD_PROPFIND_ALLPROPS)>>]
                     /\ frame' = [frame EXCEPT
                           ![Slot(i)].item_type = parsed.val[1],
                           ![Slot(i)].path = parsed.val[2]]

\* the transport answers the PROPFIND with a response, or fails
Enter(i) ==
    /\ inv[i].pc = "entering"
    /\ UNCHANGED <<frame, config, cod>>
    /\ \E answered \in BOOLEAN :
          inv' = IF answered
                 THEN [inv EXCEPT ![i].pc = "reading",
                                  ![i].open = inv[i].open + 1]
                 ELSE [inv EXCEPT ![i].pc = "failed",
                                  ![i].err = "TransportFailure"]

\* what the rest of the `async with` block makes of the body
Block(i, response_xml) ==
    IF response_xml.kind = "transport_failure" THEN Raise("TransportFailure")
    ELSE CASE inv[i].op = "get_external_account_id" ->
                 IF Len(inv[i].requests) = 1
                 THEN principal_block(inv[i].username, response_xml)
                 ELSE displayname_block(response_xml)
           [] inv[i].op = "get_item_info" ->
                 item_info_block(frame[Slot(i)].path, response_xml)
           [] OTHER ->
                 list_block(frame[Slot(i)].path, inv[i].item_type, config,
                            response_xml)

\* text_content() yields the body and the block runs to its end
TextContent(i, bodies) ==
    /\ inv[i].pc = "reading"
    /\ UNCHANGED <<config, cod>>
    /\ \E response_xml \in bodies :
          LET outcome == Block(i, response_xml)
              first == /\ inv[i].op = "get_external_account_id"
                       /\ Len(inv[i].requests) = 1
          IN  /\ inv' = [inv EXCEPT
                    ![i].pc = "exiting",
                    ![i].got = Append(inv[i].got, response_xml),
                    ![i].pending = outcome]
              /\ frame' = IF first /\ outcome.ok
                          THEN [frame EXCEPT ![Slot(i)].url = outcome.val]
                          ELSE frame

\* the block is left: the response is released; then the exception
\* propagates, the value is returned, or the second PROPFIND is issued
Exit(i) ==
    /\ inv[i].pc = "exiting"
    /\ UNCHANGED <<config, cod>>
    /\ LET open == release(inv[i].open, inv[i].pending.ok)
           first == /\ inv[i].op = "get_external_account_id"
                    /\ Len(inv[i].requests) = 1
           current_user_principal_url == LStrip(frame[Slot(i)].url, "/")
       IN  IF ~inv[i].pending.ok
           THEN /\ inv' = [inv EXCEPT ![i].pc = "failed",
                                      ![i].open = open,
                                      ![i].err = inv[i].pending.err]
                /\ UNCHANGED frame
           ELSE IF first
           THEN /\ inv' = [inv EXCEPT
                      ![i].pc = "entering",
                      ![i].open = open,
                      ![i].requests =
                          Append(inv[i].requests,
                                 Request(strip_absolute_path(
                                             current_user_principal_url),
                                         "0", BUILD_PROPFIND_DISPLAYNAME))]
                /\ frame' = [frame EXCEPT
                      ![Slot(i)].url = current_user_principal_url]
           ELSE /\ inv' = [inv EXCEPT ![i].pc = "done",
                                      ![i].open = open,
                                      ![i].result = inv[i].pending.val]
                /\ UNCHANGED frame

\* ------------------------------------------------------------------------
\* The transport's answers
\* ------------------------------------------------------------------------

PrincipalHrefs ==
    {None, Some(<<>>), Some(<<"/", "p", "/", "u", "/">>),
     Some(<<"/", "/", "p">>), Some(<<"p">>)}

Displaynames == {None, Some(<<>>), Some(<<"A", "l">>)}

\* the bodies the transport may deliver to invocation i's open response
Bodies(i) ==
    IF inv[i].op = "get_external_account_id"
    THEN IF Len(inv[i].requests) = 1
         THEN PrincipalBodies(PrincipalHrefs)
         ELSE DisplaynameBodies(Displaynames)
    ELSE AllpropBodies(
             ResponseElements(
                 Hrefs(config, inv[i].requests[1].uri_path),
                 {None, Some(<<"n">>)}),
             MaxResponses)

\* a smaller choice of bodies, for several invocations at once
FewBodies(i) ==
    IF inv[i].op = "get_external_account_id"
    THEN IF Len(inv[i].requests) = 1
         THEN {MalformedBody, XmlBody(None, None, <<>>),
               XmlBody(Some(<<"/", "p">>), None, <<>>)}
         ELSE {XmlBody(None, None, <<>>),
               XmlBody(None, Some(<<"A", "l">>), <<>>)}
    ELSE LET self == ServedPath(config, inv[i].requests[1].uri_path) IN
         {XmlBody(None, None, <<>>),
          XmlBody(None, None,
                  <<ResponseElement(Some(self), TRUE, None)>>),
          XmlBody(None, None,
                  <<ResponseElement(Some(self \o <<"c">>), FALSE, None)>>)}

\* ------------------------------------------------------------------------
\* The adapter, one invocation
\* ------------------------------------------------------------------------

Init ==
    /\ inv \in [{1} -> Invocations(ValidItemIds \cup InvalidItemIds,
                                   Usernames, ItemTypeFilters)]
    /\ frame = [s \in {1} |-> NewFrame]
    /\ config \in ExternalApiUrls
    /\ cod = CodIdle

Next ==
    \E i \in {1} :
        \/ Call(i)
        \/ Enter(i)
        \/ TextContent(i, Bodies(i))
        \/ Exit(i)

Spec == Init /\ [][Next]_vars

\* ------------------------------------------------------------------------
\* The adapter, NInv invocations interleaved at their awaits
\* ------------------------------------------------------------------------

InitConc ==
    /\ inv \in [1..NInv ->
                  Invocations({make_item_id(STR_folder, STR_docs),
                               make_item_id(STR_file, <<"a">>)},
                              {Some(STR_alice), Some(STR_bob)}, {None})]
    /\ frame = [s \in 1..NInv |-> NewFrame]
    /\ config = STR_host \o STR_base_path
    /\ cod = CodIdle

NextConc ==
    \E i \in 1..NInv :
        \/ Call(i)
        \/ Enter(i)
        \/ TextContent(i, FewBodies(i))
        \/ Exit(i)

SpecConc == InitConc /\ [][NextConc]_vars

\* ------------------------------------------------------------------------
\* The codec, applied to enumerated inputs
\* ------------------------------------------------------------------------

CodecPaths == StringsUpTo({"/", ":", "a"}, MaxLen)

CodecIds ==
    ValidItemIds \cup InvalidItemIds
        \cup {make_item_id(STR_folder, <<"a", ":", "b">>)}

\* hrefs: nothing, the base path or the base URL, followed by a relative part
CodecHrefs(base) ==
    {prefix \o rel :
        prefix \in {<<>>, urlparse_path(base), base},
        rel \in StringsUpTo({"/", "x", "%", "2", "F"}, MaxLen)}
      \cup {STR_base_path \o STR_docs \o <<"/">>}

CodecBases ==
    {STR_host \o STR_base_path, STR_host, STR_host \o <<"/">>,
     STR_host \o <<"/", "x">>}

InitCodec ==
    /\ inv = [i \in {1} |-> NewInvocation("list_root_items", <<>>, None, None)]
    /\ frame = [s \in {1} |-> NewFrame]
    /\ config = STR_host
    /\ \/ \E t \in ItemTypeValues, p \in CodecPaths :
             cod = [CodIdle EXCEPT !.kind = "pair", !.pc = "start",
                                   !.item_type = t, !.path = p]
       \/ \E id \in CodecIds :
             cod = [CodIdle EXCEPT !.kind = "id", !.pc = "made",
                                   !.item_id = id]
       \/ \E base \in CodecBases :
             \E href \in CodecHrefs(base) :
                cod = [CodIdle EXCEPT !.kind = "href", !.pc = "start",
                                      !.href = href, !.base = base]

MakeItemId ==
    /\ cod.kind = "pair" /\ cod.pc = "start"
    /\ cod' = [cod EXCEPT !.pc = "made",
                          !.item_id = make_item_id(cod.item_type, cod.path)]
    /\ UNCHANGED <<inv, frame, config>>

ParseItemId ==
    /\ cod.pc = "made"
    /\ cod' = [cod EXCEPT !.pc = "done",
                          !.decoded = parse_item_id(cod.item_id)]
    /\ UNCHANGED <<inv, frame, config>>

HrefToPath ==
    /\ cod.kind = "href" /\ cod.pc = "start"
    /\ cod' = [cod EXCEPT !.pc = "done",
                          !.out = href_to_path(cod.href, cod.base)]
    /\ UNCHANGED <<inv, frame, config>>

NextCodec == MakeItemId \/ ParseItemId \/ HrefToPath

SpecCodec == InitCodec /\ [][NextCodec]_vars

\* ------------------------------------------------------------------------
\* Properties
\* ------------------------------------------------------------------------

IsGetId(i) == inv[i].op = "get_external_account_id"
IsItemOp(i) == inv[i].op \in {"get_item_info", "list_child_items"}
IsListing(i) == inv[i].op \in {"list_child_items", "list_root_items"}
Ended(i) == inv[i].pc \in {"done", "failed"}

\* C1: in get_external_account_id the second PROPFIND is issued only after
\* the first response's body has been received and parsed; when the first
\* request ends in a transport failure or its body is not XML, the operation
\* fails with that failure and a second PROPFIND is never issued.
C1_SecondPropfindOnlyAfterFirstBody ==
    \A i \in DOMAIN inv :
        IsGetId(i) =>
            /\ Len(inv[i].requests) >= 2 =>
                  /\ Len(inv[i].got) >= 1
                  /\ inv[i].got[1].kind = "xml"
            /\ (Len(inv[i].got) >= 1 /\ inv[i].got[1].kind # "xml") =>
                  /\ Len(inv[i].requests) = 1
                  /\ inv[i].pc \in {"exiting", "failed"}
                  /\ inv[i].pc = "failed" =>
                        inv[i].err =
                            IF inv[i].got[1].kind = "malformed"
                            THEN "MalformedResponse"
                            ELSE "TransportFailure"
            /\ (inv[i].pc = "failed" /\ inv[i].got = <<>>) =>
                  /\ Len(inv[i].requests) = 1
                  /\ inv[i].err = "TransportFailure"

\* C1 witness: the first body was not XML and the operation has failed with
\* MalformedResponse after one PROPFIND.
C1_Witness ==
    \E i \in DOMAIN inv :
        /\ IsGetId(i)
        /\ inv[i].pc = "failed"
        /\ inv[i].got = <<MalformedBody>>
        /\ inv[i].err = "MalformedResponse"
        /\ Len(inv[i].requests) = 1

C2_files == <<"r", "e", "m", "o", "t", "e", ".", "p", "h", "p", "/",
              "d", "a", "v", "/", "f", "i", "l", "e", "s", "/">>

\* C2: when the first response parses but holds no current-user-principal
\* href, get_external_account_id does not fail: the second PROPFIND goes to
\* "remote.php/dav/files/<u>/", u being authExtras.username when that is
\* non-empty and the fixed fallback username otherwise; when the href is
\* present the second PROPFIND goes to the href without its leading slashes,
\* whatever the username.
C2_SecondPropfindPath ==
    \A i \in DOMAIN inv :
        (IsGetId(i) /\ Len(inv[i].got) >= 1 /\ inv[i].got[1].kind = "xml") =>
            LET href == inv[i].got[1].principal
                u == IF inv[i].username # None /\ inv[i].username[1] # <<>>
                     THEN inv[i].username[1]
                     ELSE STR_default_username
                expected == IF href # None /\ href[1] # <<>>
                            THEN LStrip(href[1], "/")
                            ELSE C2_files \o u \o <<"/">>
            IN  /\ inv[i].pc = "exiting" \/ Len(inv[i].requests) = 2
                /\ Len(inv[i].got) = 1 => inv[i].pending.ok
                /\ Len(inv[i].requests) = 2 =>
                      /\ inv[i].requests[2].uri_path = expected
                      /\ inv[i].requests[2].depth = "0"
                      /\ inv[i].requests[2].content = "displayname"

\* C2 witness: no principal href, username "alice", and the second PROPFIND
\* has gone to remote.php/dav/files/alice/.
C2_Witness ==
    \E i \in DOMAIN inv :
        /\ IsGetId(i)
        /\ inv[i].username = Some(STR_alice)
        /\ Len(inv[i].got) >= 1
        /\ inv[i].got[1].kind = "xml"
        /\ inv[i].got[1].principal = None
        /\ Len(inv[i].requests) = 2
        /\ inv[i].requests[2].uri_path =
               C2_files \o <<"a", "l", "i", "c", "e", "/">>

\* C4: every response a PROPFIND acquired is released before the operation
\* returns or fails, on every exit path; before a second PROPFIND is issued
\* the first response is released too.
C4_ResponsesReleased ==
    \A i \in DOMAIN inv :
        /\ inv[i].open \in {0, 1}
        /\ inv[i].open = 1 <=> inv[i].pc \in {"reading", "exiting"}
        /\ Ended(i) => inv[i].open = 0

\* C4 witness: an operation that read a body which is not XML has failed
\* and holds no open response.
C4_Witness ==
    \E i \in DOMAIN inv :
        /\ inv[i].pc = "failed"
        /\ Len(inv[i].got) >= 1
        /\ inv[i].got[Len(inv[i].got)].kind = "malformed"
        /\ inv[i].open = 0

\* the path of an item identifier: what follows its first colon
PathOfId(item_id) == Drop(item_id, Find(item_id, ":"))

\* C5: list_child_items never returns the container itself: no returned
\* item's path is, up to slashes at its ends, the queried folder's path.
C5_ListingExcludesContainer ==
    \A i \in DOMAIN inv :
        (IsListing(i) /\ inv[i].pc = "done") =>
            LET queried == IF inv[i].op = "list_root_items"
                              \/ inv[i].item_id = <<>>
                           THEN <<"/">>
                           ELSE PathOfId(inv[i].item_id)
            IN  \A k \in 1..Len(inv[i].result) :
                    Strip(PathOfId(inv[i].result[k].item_id), "/")
                        # Strip(queried, "/")

\* C6: item identifiers round-trip: decoding the identifier made from
\* (t, p) gives (t, p), for paths with colons and the empty path too;
\* "folder:a:b" decodes to (folder, "a:b").
C6_ItemIdRoundTrip ==
    /\ (cod.kind = "pair" /\ cod.pc = "done") =>
          /\ cod.decoded.ok
          /\ cod.decoded.val = <<cod.item_type, cod.path>>
    /\ (/\ cod.kind = "id"
        /\ cod.pc = "done"
        /\ cod.item_id = <<"f", "o", "l", "d", "e", "r", ":", "a", ":", "b">>)
          => /\ cod.decoded.ok
             /\ cod.decoded.val = <<STR_folder, <<"a", ":", "b">>>>

\* C6 witness: a pair whose path holds a colon has been encoded and decoded.
C6_Witness ==
    /\ cod.kind = "pair"
    /\ cod.pc = "done"
    /\ cod.item_type = STR_file
    /\ cod.path = <<"a", ":", "/">>
    /\ cod.item_id = <<"f", "i", "l", "e", ":", "a", ":", "/">>

HasColon(s) == \E k \in 1..Len(s) : s[k] = ":"
TokenOfId(item_id) == Take(item_id, Find(item_id, ":") - 1)

\* C7: the empty identifier decodes to (folder, "/"); a non-empty
\* identifier with no colon, or whose token before the first colon is no
\* ItemType value, makes get_item_info and list_child_items fail with
\* InvalidItemId before any PROPFIND is issued.
C7_InvalidItemIdBeforeAnyPropfind ==
    \A i \in DOMAIN inv :
        (IsItemOp(i) /\ inv[i].pc # "start") =>
            LET id == inv[i].item_id IN
            /\ id = <<>> =>
                  /\ frame[i].item_type = <<"f", "o", "l", "d", "e", "r">>
                  /\ frame[i].path = <<"/">>
                  /\ Len(inv[i].requests) = 1
            /\ (/\ id # <<>>
                /\ \/ ~HasColon(id)
                   \/ TokenOfId(id) \notin
                          {<<"f", "i", "l", "e">>,
                           <<"f", "o", "l", "d", "e", "r">>}) =>
                  /\ inv[i].pc = "failed"
                  /\ inv[i].err = "InvalidItemId"
                  /\ inv[i].requests = <<>>
                  /\ inv[i].got = <<>>
                  /\ inv[i].open = 0

\* C7 witness: get_item_info("bogus") has failed with InvalidItemId and no
\* request.
C7_Witness ==
    \E i \in DOMAIN inv :
        /\ inv[i].op = "get_item_info"
        /\ inv[i].item_id = STR_bogus
        /\ inv[i].pc = "failed"
        /\ inv[i].err = "InvalidItemId"
        /\ inv[i].requests = <<>>

\* C8: when the href's path is the base URL's path B followed by r,
\* _href_to_path gives r without the slashes at its ends, and "/" when
\* nothing is left of r (the href is the base path); it never gives "".
C8_HrefToPathStripsBase ==
    (cod.kind = "href" /\ cod.pc = "done") =>
        LET hp == urlparse_path(unquote(cod.href))
            B == urlparse_path(cod.base)
            r == Drop(hp, Len(B))
        IN  /\ cod.out # <<>>
            /\ StartsWith(hp, B) =>
                  cod.out = IF Strip(r, "/") = <<>>
                            THEN <<"/">>
                            ELSE Strip(r, "/")

\* C8 witness: base https://host/remote.php/dav/files/u/ and href
\* /remote.php/dav/files/u/docs/ have given "docs".
C8_Witness ==
    /\ cod.kind = "href"
    /\ cod.pc = "done"
    /\ cod.base = STR_host \o STR_base_path
    /\ cod.href = STR_base_path \o <<"d", "o", "c", "s", "/">>
    /\ cod.out = <<"d", "o", "c", "s">>

\* C9: get_item_info fails with ItemNotFound and returns no Item when the
\* well-formed answer holds no response element.
C9_ItemNotFoundOnNoResponse ==
    \A i \in DOMAIN inv :
        (/\ inv[i].op = "get_item_info"
         /\ Len(inv[i].got) = 1
         /\ inv[i].got[1].kind = "xml"
         /\ inv[i].got[1].responses = <<>>) =>
            /\ inv[i].pc \in {"exiting", "failed"}
            /\ inv[i].result = <<>>
            /\ ~inv[i].pending.ok
            /\ inv[i].pending.err = "ItemNotFound"
            /\ inv[i].pc = "failed" => inv[i].err = "ItemNotFound"

\* C9 witness: get_item_info has failed with ItemNotFound on a multistatus
\* without response elements.
C9_Witness ==
    \E i \in DOMAIN inv :
        /\ inv[i].op = "get_item_info"
        /\ inv[i].pc = "failed"
        /\ inv[i].err = "ItemNotFound"
        /\ inv[i].got = <<XmlBody(None, None, <<>>)>>

\* what invocation i would have requested and answered alone, from its own
\* arguments and the bodies it received
AloneId(i) ==
    IF inv[i].op = "list_root_items" THEN owncloud_root_id
    ELSE inv[i].item_id
AlonePath(i) == parse_item_id(AloneId(i)).val[2]
AloneBlock(i, n) ==
    LET response_xml == inv[i].got[n] IN
    IF response_xml.kind = "transport_failure" THEN Raise("TransportFailure")
    ELSE CASE IsGetId(i) ->
                 IF n = 1 THEN principal_block(inv[i].username, response_xml)
                 ELSE displayname_block(response_xml)
           [] inv[i].op = "get_item_info" ->
                 item_info_block(AlonePath(i), response_xml)
           [] OTHER ->
                 list_block(AlonePath(i), inv[i].item_type, config,
                            response_xml)

\* C10: interleaved invocations do not interfere: each one's requests and
\* its result or failure are those its own arguments and its own responses
\* determine.
C10_NoInterference ==
    \A i \in DOMAIN inv :
        /\ (~IsGetId(i) /\ Len(inv[i].requests) >= 1) =>
              inv[i].requests =
                  <<Request(LStrip(AlonePath(i), "/"),
                            IF inv[i].op = "get_item_info" THEN "0" ELSE "1",
                            "allprop")>>
        /\ (IsGetId(i) /\ Len(inv[i].requests) = 2) =>
              inv[i].requests[2].uri_path =
                  LStrip(AloneBlock(i, 1).val, "/")
        /\ (inv[i].pc = "exiting") =>
              inv[i].pending = AloneBlock(i, Len(inv[i].got))
        /\ (inv[i].pc = "done") =>
              inv[i].result = AloneBlock(i, Len(inv[i].got)).val
        /\ (inv[i].pc = "failed" /\ inv[i].open = 0 /\ inv[i].got # <<>>
              /\ ~AloneBlock(i, Len(inv[i].got)).ok) =>
              inv[i].err = AloneBlock(i, Len(inv[i].got)).err

\* C10 witness: two invocations for different paths are in flight together,
\* one leaving its block with an item while the other awaits its body.
C10_Witness ==
    /\ inv[1].op = "get_item_info"
    /\ inv[2].op = "get_item_info"
    /\ inv[1].item_id # inv[2].item_id
    /\ inv[1].pc = "exiting"
    /\ inv[1].pending.ok
    /\ inv[2].pc = "reading"

====
